---- MODULE Spec2Model ----
(***************************************************************************)
(* A model of the lead pipeline of src/src/crm_pipeline.py and of the      *)
(* completion client of src/src/llm_client.py.                             *)
(*                                                                         *)
(* A text is a finite sequence of tokens.  A token is a word, a digit, a   *)
(* marker such as ":" or "Subject:", a blank " " or a line break "\n".     *)
(* The string operations of the code (strip, splitlines, split, lower,     *)
(* startswith, filter(str.isdigit), int) are modelled on such sequences    *)
(* by what they do.                                                        *)
(***************************************************************************)
EXTENDS Integers, Sequences, FiniteSets, TLC

\* rows       the input table, as df.to_dict(orient='records') gives it
\* pc         the position of main (or of a stage called alone)
\* i          the number of the record the loop has bound, 0 before the loop
\* lead       the record in hand
\* processed  the output collection
\* out        the completion text a stage called alone got from llm.generate
\* smtp       the messages the SMTP server accepted
\* trace      per record, the stages called for it and how each ended
\* out_csv    the written output table
\* report     the statistics and the file generate_report produces
\* stdout     the closing messages of main
VARIABLES rows, pc, i, lead, processed, out, smtp, trace, out_csv, report, stdout

vars == <<rows, pc, i, lead, processed, out, smtp, trace, out_csv, report, stdout>>

(***************************************************************************)
(* Bounds of the model.                                                    *)
(***************************************************************************)
\* longest input table
MaxRows == 2
\* longest completion text, in tokens, drawn when a stage is exercised alone
MaxTextLen == 4

(***************************************************************************)
(* Text operations.                                                        *)
(***************************************************************************)
NL == "\n"
SP == " "

\* str.isspace of a token
IsSpace(t) == t \in {SP, NL}

\* str.isdigit of a token
IsDigit(t) == t \in {"0", "1", "2", "3", "4", "5", "6", "7", "8", "9"}

DigitVal(t) ==
    CASE t = "0" -> 0 [] t = "1" -> 1 [] t = "2" -> 2 [] t = "3" -> 3
      [] t = "4" -> 4 [] t = "5" -> 5 [] t = "6" -> 6 [] t = "7" -> 7
      [] t = "8" -> 8 [] t = "9" -> 9

\* str.lower of a token
LowerTok(t) ==
    CASE t = "Priority" -> "priority"
      [] t = "Reason" -> "reason"
      [] OTHER -> t

Lower(s) == [k \in 1..Len(s) |-> LowerTok(s[k])]

RECURSIVE LStrip(_)
LStrip(s) == IF s # <<>> /\ IsSpace(Head(s)) THEN LStrip(Tail(s)) ELSE s

RECURSIVE RStrip(_)
RStrip(s) ==
    IF s # <<>> /\ IsSpace(s[Len(s)]) THEN RStrip(SubSeq(s, 1, Len(s) - 1)) ELSE s

\* str.strip
Strip(s) == RStrip(LStrip(s))

\* `t in s`
Contains(s, t) == \E k \in 1..Len(s) : s[k] = t

\* position of the first occurrence of t in s (s contains t)
FirstIndex(s, t) == CHOOSE k \in 1..Len(s) : s[k] = t /\ \A j \in 1..(k - 1) : s[j] # t

\* s.split(t, 1) for s containing t: the parts before and after the first t
Before(s, t) == SubSeq(s, 1, FirstIndex(s, t) - 1)
After(s, t) == SubSeq(s, FirstIndex(s, t) + 1, Len(s))

\* str.splitlines: lines end at "\n"; a trailing empty piece is no line
RECURSIVE SplitLines(_)
SplitLines(s) ==
    IF s = <<>> THEN <<>>
    ELSE IF Contains(s, NL) THEN <<Before(s, NL)>> \o SplitLines(After(s, NL))
    ELSE <<s>>

\* str.split(): the words of s, separated by runs of blanks
RECURSIVE Words(_)
Words(s) ==
    LET t == LStrip(s) IN
    IF t = <<>> THEN <<>>
    ELSE IF \E k \in 1..Len(t) : IsSpace(t[k])
         THEN LET k == CHOOSE k \in 1..Len(t) :
                           IsSpace(t[k]) /\ \A j \in 1..(k - 1) : ~IsSpace(t[j])
              IN <<SubSeq(t, 1, k - 1)>> \o Words(SubSeq(t, k + 1, Len(t)))
         ELSE <<t>>

\* filter(str.isdigit, line)
RECURSIVE Digits(_)
Digits(s) ==
    IF s = <<>> THEN <<>>
    ELSE IF IsDigit(Head(s)) THEN <<Head(s)>> \o Digits(Tail(s))
    ELSE Digits(Tail(s))

\* int() of a non-empty string of digits
RECURSIVE ParseInt(_)
ParseInt(d) ==
    IF d = <<>> THEN 0 ELSE 10 * ParseInt(SubSeq(d, 1, Len(d) - 1)) + DigitVal(d[Len(d)])

\* all texts of at most n tokens over an alphabet
RECURSIVE TextsUpTo(_, _)
TextsUpTo(alphabet, n) ==
    IF n = 0 THEN {<<>>}
    ELSE LET shorter == TextsUpTo(alphabet, n - 1) IN
         shorter \cup {Append(s, t) : s \in {x \in shorter : Len(x) = n - 1}, t \in alphabet}

(***************************************************************************)
(* Values of a lead record.  A text field holds a text; `None` is the      *)
(* value of dict.get for a missing key and `NaN` the value pandas gives a  *)
(* blank cell, both written as reserved one-token texts.  `priority`       *)
(* holds an integer or a non-numeric placeholder.                          *)
(***************************************************************************)
None == <<"<None>">>
NaN == <<"<NaN>">>
Empty == <<>>

\* Python truth value of a field value: None and '' are false, NaN is true
Truthy(v) == v \notin {None, Empty}

\* Python `a or b`
Or(a, b) == IF Truthy(a) THEN a ELSE b

\* an integer priority, and the '' placeholder of a column main() adds
IntVal(n) == [num |-> TRUE, val |-> n]
NoPriority == [num |-> FALSE, val |-> 0]

(***************************************************************************)
(* LLMClient.generate: the text of a completion whose message content is   *)
(* `content`.  Non-empty content is returned stripped; empty content falls *)
(* through to the stringified response object.                             *)
(***************************************************************************)
StrResp == <<"ChatCompletion(...)">>

generate(content) == IF content # <<>> THEN Strip(content) ELSE StrResp

(***************************************************************************)
(* enrich_lead                                                             *)
(***************************************************************************)
\* parsed[k] = v
Put(d, k, v) == [x \in (DOMAIN d) \cup {k} |-> IF x = k THEN v ELSE d[x]]

\* dict.get(k, default)
Get(d, k, default) == IF k \in DOMAIN d THEN d[k] ELSE default

\* the loop over out.splitlines() filling `parsed`
RECURSIVE ParseKeyValues(_, _)
ParseKeyValues(lines, parsed) ==
    IF lines = <<>> THEN parsed
    ELSE LET line == Head(lines) IN
         ParseKeyValues(Tail(lines),
             IF Contains(line, ":")
             THEN Put(parsed, Strip(Before(line, ":")), Strip(After(line, ":")))
             ELSE parsed)

\* `lead.get(f) or parsed.get(f) or ''`
Fallback(old, parsed, key) == Or(old, Or(Get(parsed, key, None), Empty))

\* a variant of enrich_lead that takes the parsed value first
enrich_lead_parsed_first(l, text) ==
    LET parsed == ParseKeyValues(SplitLines(text), <<>>) IN
    [l EXCEPT !.company = Or(Get(parsed, <<"company">>, None), Or(l.company, Empty)),
              !.title = Or(Get(parsed, <<"title">>, None), Or(l.title, Empty)),
              !.industry = Or(Get(parsed, <<"industry">>, None), Or(l.industry, Empty)),
              !.location = Or(Get(parsed, <<"location">>, None), Or(l.location, Empty)),
              !.persona = Get(parsed, <<"persona">>, <<"Unknown">>),
              !.persona_desc = Get(parsed, <<"persona_desc">>, Empty)]

enrich_lead(l, text) ==
    LET parsed == ParseKeyValues(SplitLines(text), <<>>) IN
    [l EXCEPT !.company = Or(l.company, Or(Get(parsed, <<"company">>, None), Or(l.company, Empty))),
              !.title = Fallback(l.title, parsed, <<"title">>),
              !.industry = Fallback(l.industry, parsed, <<"industry">>),
              !.location = Fallback(l.location, parsed, <<"location">>),
              !.persona = Get(parsed, <<"persona">>, <<"Unknown">>),
              !.persona_desc = Get(parsed, <<"persona_desc">>, Empty)]

(***************************************************************************)
(* score_lead                                                              *)
(***************************************************************************)
StartsWith(s, t) == s # <<>> /\ s[1] = t

DefaultPriority == 3

\* int(''.join(filter(str.isdigit, line))), ValueError caught
PriorityOf(line) ==
    IF Digits(line) = <<>> THEN DefaultPriority ELSE ParseInt(Digits(line))

\* the loop over out.splitlines(); `raised` is the ValueError of unpacking
\* line.split(':', 1) of a reason line that has no colon
RECURSIVE ScanScore(_, _)
ScanScore(lines, st) ==
    IF lines = <<>> \/ st.raised THEN st
    ELSE LET line == Head(lines)
             key == Strip(Lower(line))
             p == IF StartsWith(key, "priority") THEN PriorityOf(line) ELSE st.priority
         IN  ScanScore(Tail(lines),
                 IF StartsWith(key, "reason")
                 THEN IF Contains(line, ":")
                      THEN [priority |-> p, reason |-> Strip(After(line, ":")), raised |-> FALSE]
                      ELSE [priority |-> p, reason |-> st.reason, raised |-> TRUE]
                 ELSE [priority |-> p, reason |-> st.reason, raised |-> FALSE])

Scored(text) ==
    ScanScore(SplitLines(text), [priority |-> DefaultPriority, reason |-> Empty, raised |-> FALSE])

score_raises(text) == Scored(text).raised

score_lead(l, text) ==
    [l EXCEPT !.priority = IntVal(Scored(text).priority),
              !.priority_reason = Scored(text).reason]

(***************************************************************************)
(* draft_email                                                             *)
(***************************************************************************)
draft_email(l, text) ==
    IF Contains(text, "Subject:")
    THEN LET parts == After(text, "Subject:") IN
         IF Contains(parts, "Body:")
         THEN [l EXCEPT !.email_subject = Strip(Before(parts, "Body:")),
                        !.email_body = Strip(After(parts, "Body:"))]
         ELSE [l EXCEPT !.email_subject = Strip(parts), !.email_body = Empty]
    ELSE [l EXCEPT !.email_subject = <<"Quick note for ", l.first_name>>,
                   !.email_body = Strip(text)]

(***************************************************************************)
(* simulate_and_classify_responses.  A draw of random.random() is given in *)
(* hundredths.                                                             *)
(***************************************************************************)
HighPriority == 4
MidPriority == 3
HighReplyPct == 80
MidReplyPct == 25

simulate(l, r1, r2) ==
    IF l.priority.val >= HighPriority /\ r1 < HighReplyPct THEN TRUE
    ELSE l.priority.val = MidPriority /\ r2 < MidReplyPct

NoResponse == <<"No", " ", "Response">>

no_response(l) ==
    [l EXCEPT !.status = "no_response", !.response_text = Empty,
              !.response_category = NoResponse]

\* label.splitlines()[0].strip().split()[0] raises IndexError
label_raises(label) ==
    IF SplitLines(label) = <<>> THEN TRUE
    ELSE Words(Strip(SplitLines(label)[1])) = <<>>

label_clean(label) == Words(Strip(SplitLines(label)[1]))[1]

replied(l, reply, label) ==
    [l EXCEPT !.status = "replied", !.response_text = reply,
              !.response_category = label_clean(label)]

(***************************************************************************)
(* The input table: pd.read_csv, the output columns main() adds, and       *)
(* df.to_dict(orient='records').  A table either has the four profile      *)
(* columns (a cell is filled, or blank and read as NaN) or lacks them      *)
(* (dict.get gives None).                                                  *)
(***************************************************************************)
Profiles == {"complete", "blank", "absent"}

ProfileValue(profile, v) ==
    CASE profile = "complete" -> v
      [] profile = "blank" -> NaN
      [] profile = "absent" -> None

\* row k of the table; its address tells the rows apart
Row(k, profile) ==
    [email |-> k, first_name |-> "Ada",
     company |-> ProfileValue(profile, <<"Acme">>),
     title |-> ProfileValue(profile, <<"CTO">>),
     industry |-> ProfileValue(profile, <<"Software">>),
     location |-> ProfileValue(profile, <<"Berlin">>),
     persona |-> Empty, persona_desc |-> Empty,
     priority |-> NoPriority, priority_reason |-> Empty,
     email_subject |-> Empty, email_body |-> Empty,
     status |-> "", response_text |-> Empty, response_category |-> Empty]

Tables ==
    UNION {{[k \in 1..n |-> Row(k, f[k])] : f \in [1..n -> {"complete", "blank"}]} : n \in 0..MaxRows}
    \cup {[k \in 1..n |-> Row(k, "absent")] : n \in 0..MaxRows}

\* the value of `lead` before the loop binds it
NoLead == Row(0, "absent")

(***************************************************************************)
(* Completions the backend returns during a run, and the failures of the   *)
(* external capabilities.                                                  *)
(***************************************************************************)
EnrichCompletions ==
    {<<"company", ":", SP, "Globex", NL, "title", ":", SP, "VP", NL,
       "industry", ":", SP, "Retail", NL, "location", ":", SP, "Paris", NL,
       "persona", ":", SP, "Buyer", NL, "persona_desc", ":", SP, "Decides">>}

ScoreCompletions ==
    {<<"priority", ":", SP, "4", NL, "reason", ":", SP, "fit">>,
     <<"n/a">>,
     <<"priority", ":", SP, "4", NL, "reason", SP, "fit">>}

DraftCompletions == {<<"Subject:", SP, "Hello", NL, NL, "Body:", SP, "Hi", SP, "there">>}

ReplyCompletions == {<<"Sounds", SP, "good">>}

LabelCompletions == {<<"Interested">>, <<"Not", SP, "Interested">>, <<SP>>}

InsightCompletions == {<<"Insights">>}

\* str(e) of a failed completion call, of a failed delivery, and of the
\* errors the parsing code raises
LLMErrors == {"timeout"}
SendErrors == {"refused"}
ValueErrorText == "not enough values to unpack (expected 2, got 1)"
IndexErrorText == "list index out of range"

\* draws of random.random(), in hundredths
RandomDraws == {10, 50, 90}

(***************************************************************************)
(* generate_report                                                         *)
(***************************************************************************)
\* the columns of pd.DataFrame(processed): the keys of its records
Columns(df) == IF df = <<>> THEN {} ELSE DOMAIN df[1]

\* df['status'].isin(['sent','replied']).sum()
CountSent(df) == Cardinality({k \in 1..Len(df) : df[k].status \in {"sent", "replied"}})

\* (df['status'] == 'replied').sum()
CountReplied(df) == Cardinality({k \in 1..Len(df) : df[k].status = "replied"})

\* pd.to_numeric(errors='coerce') and mean(skipna=True): sum and count of
\* the numeric entries
RECURSIVE SumPriority(_)
SumPriority(df) ==
    IF df = <<>> THEN 0
    ELSE (IF Head(df).priority.num THEN Head(df).priority.val ELSE 0) + SumPriority(Tail(df))

CountNumeric(df) == Cardinality({k \in 1..Len(df) : df[k].priority.num})

\* a float: the quotient num/den, or nan
Quotient(n, d) == [nan |-> FALSE, num |-> n, den |-> d]
Zero == Quotient(0, 1)
NaNFloat == [nan |-> TRUE, num |-> 0, den |-> 1]

Mean(df) ==
    IF CountNumeric(df) = 0 THEN NaNFloat
    ELSE Quotient(SumPriority(df), CountNumeric(df))

avg_priority(df) ==
    IF "priority" \in Columns(df)
    THEN IF df # <<>> THEN Mean(df) ELSE Zero
    ELSE Zero

persona_counts(df) ==
    [p \in {df[k].persona : k \in 1..Len(df)} |->
        Cardinality({k \in 1..Len(df) : df[k].persona = p})]

\* df['status'] raises KeyError
report_raises(df) == "status" \notin Columns(df)

\* the statistics generate_report computes before it asks for insights
summary(df) ==
    [total |-> Len(df), sent |-> CountSent(df),
     replied |-> CountReplied(df), avg_priority |-> avg_priority(df),
     personas |-> persona_counts(df)]

NoReport ==
    [computed |-> FALSE, summary |-> summary(<<>>), written |-> FALSE, insights |-> Empty]

(***************************************************************************)
(* main: the state before the loop.                                        *)
(***************************************************************************)
Init ==
    /\ rows \in Tables
    /\ pc = "loop"
    /\ i = 0
    /\ lead = NoLead
    /\ processed = <<>>
    /\ out = <<>>
    /\ smtp = <<>>
    /\ trace = <<>>
    /\ out_csv = [written |-> FALSE, rows |-> <<>>]
    /\ report = NoReport
    /\ stdout = <<>>

\* the event log of the record in hand, extended by one event
Log(stage, result, detail) ==
    [trace EXCEPT ![Len(trace)] =
        Append(@, [stage |-> stage, result |-> result, detail |-> detail])]

\* a variant of Emit that inserts the record at the front
EmitFront == processed' = <<lead'>> \o processed /\ pc' = "loop"

\* processed.append(lead); time.sleep(0.5)
Emit == processed' = Append(processed, lead') /\ pc' = "loop"

\* a variant of Raise without the except clause: the error leaves main
RaiseUncaught(stage, e) ==
    /\ pc' = "aborted"
    /\ trace' = Log(stage, "raise", e)
    /\ UNCHANGED <<rows, i, lead, processed, out, smtp, out_csv, report, stdout>>

\* the except clause of the loop body, then the append
Raise(stage, e) ==
    /\ lead' = [lead EXCEPT !.status = "error: " \o e]
    /\ Emit
    /\ trace' = Log(stage, "raise", e)
    /\ UNCHANGED <<rows, i, out, smtp, out_csv, report, stdout>>

\* `for lead in rows`: the next record is bound
NextLead ==
    /\ pc = "loop"
    /\ i < Len(rows)
    /\ i' = i + 1
    /\ lead' = rows[i + 1]
    /\ pc' = "enrich"
    /\ trace' = Append(trace, <<>>)
    /\ UNCHANGED <<rows, processed, out, smtp, out_csv, report, stdout>>

Enrich ==
    /\ pc = "enrich"
    /\ \/ \E content \in EnrichCompletions :
            /\ lead' = enrich_lead(lead, generate(content))
            /\ pc' = "score"
            /\ trace' = Log("enrich", "ok", "")
            /\ UNCHANGED <<rows, i, processed, out, smtp, out_csv, report, stdout>>
       \/ \E e \in LLMErrors : Raise("enrich", e)

Score ==
    /\ pc = "score"
    /\ \/ \E content \in ScoreCompletions :
            /\ ~score_raises(generate(content))
            /\ lead' = score_lead(lead, generate(content))
            /\ pc' = "draft"
            /\ trace' = Log("score", "ok", "")
            /\ UNCHANGED <<rows, i, processed, out, smtp, out_csv, report, stdout>>
       \/ \E content \in ScoreCompletions :
            /\ score_raises(generate(content))
            /\ Raise("score", ValueErrorText)
       \/ \E e \in LLMErrors : Raise("score", e)

Draft ==
    /\ pc = "draft"
    /\ \/ \E content \in DraftCompletions :
            /\ lead' = draft_email(lead, generate(content))
            /\ pc' = "send"
            /\ trace' = Log("draft", "ok", "")
            /\ UNCHANGED <<rows, i, processed, out, smtp, out_csv, report, stdout>>
       \/ \E e \in LLMErrors : Raise("draft", e)

\* send_email inside its own try; a failure is recorded and the record goes on
Send ==
    /\ pc = "send"
    /\ \/ /\ smtp' = Append(smtp, [to |-> lead.email, subject |-> lead.email_subject,
                                   body |-> lead.email_body])
          /\ lead' = [lead EXCEPT !.status = "sent"]
          /\ trace' = Log("send", "ok", "")
       \/ \E e \in SendErrors :
            /\ lead' = [lead EXCEPT !.status = "send_error: " \o e]
            /\ trace' = Log("send", "fail", e)
            /\ UNCHANGED smtp
    /\ pc' = "simulate"
    /\ UNCHANGED <<rows, i, processed, out, out_csv, report, stdout>>

Simulate ==
    /\ pc = "simulate"
    /\ \E r1 \in RandomDraws, r2 \in RandomDraws :
         \/ /\ ~simulate(lead, r1, r2)
            /\ lead' = no_response(lead)
            /\ Emit
            /\ trace' = Log("simulate", "ok", "")
            /\ UNCHANGED <<rows, i, out, smtp, out_csv, report, stdout>>
         \/ /\ simulate(lead, r1, r2)
            /\ \E reply \in ReplyCompletions, label \in LabelCompletions :
                 /\ ~label_raises(generate(label))
                 /\ lead' = replied(lead, generate(reply), generate(label))
            /\ Emit
            /\ trace' = Log("simulate", "ok", "")
            /\ UNCHANGED <<rows, i, out, smtp, out_csv, report, stdout>>
         \/ /\ simulate(lead, r1, r2)
            /\ \E e \in LLMErrors \cup {IndexErrorText} :
                 /\ e = IndexErrorText =>
                        \E label \in LabelCompletions : label_raises(generate(label))
                 /\ Raise("simulate", e)

\* after the loop: pd.DataFrame(processed).to_csv(args.out)
WriteCsv ==
    /\ pc = "loop"
    /\ i = Len(rows)
    /\ out_csv' = [written |-> TRUE, rows |-> processed]
    /\ pc' = "report"
    /\ UNCHANGED <<rows, i, lead, processed, out, smtp, trace, report, stdout>>

\* generate_report up to the summary text; df['status'] may raise, which
\* nothing catches
ReportSummary ==
    /\ pc = "report"
    /\ \/ /\ ~report_raises(out_csv.rows)
          /\ report' = [report EXCEPT !.computed = TRUE, !.summary = summary(out_csv.rows)]
          /\ pc' = "insights"
       \/ /\ report_raises(out_csv.rows)
          /\ pc' = "aborted"
          /\ UNCHANGED report
    /\ UNCHANGED <<rows, i, lead, processed, out, smtp, trace, out_csv, stdout>>

\* the insights call, the report file and the closing messages of main; a
\* failed call is caught by nothing
ReportInsights ==
    /\ pc = "insights"
    /\ \/ \E content \in InsightCompletions :
            /\ report' = [report EXCEPT !.written = TRUE, !.insights = generate(content)]
            /\ stdout' = <<"Done. Updated CSV at", "Report at reports/campaign_summary.md">>
            /\ pc' = "done"
       \/ /\ pc' = "aborted"
          /\ UNCHANGED <<report, stdout>>
    /\ UNCHANGED <<rows, i, lead, processed, out, smtp, trace, out_csv>>

Next ==
    \/ NextLead
    \/ Enrich
    \/ Score
    \/ Draft
    \/ Send
    \/ Simulate
    \/ WriteCsv
    \/ ReportSummary
    \/ ReportInsights

Spec == Init /\ [][Next]_vars

(***************************************************************************)
(* The stage functions exercised alone: one call of one stage on a record, *)
(* for every completion text of at most MaxTextLen tokens over the tokens  *)
(* the stage's parsing looks at.                                           *)
(***************************************************************************)
EnrichAlphabet ==
    {"company", "title", "industry", "location", "persona", ":", SP, NL, "Globex"}
ScoreAlphabet == {"priority", "Priority", "reason", ":", SP, NL, "5", "7"}
DraftAlphabet == {"Subject:", "Body:", SP, NL, "Hi", "there"}
LabelAlphabet == {"Interested", "Maybe", "Not", SP, NL, "Sure"}

\* records as the loop hands them to enrich_lead, and records as they are
\* after scoring, drafting and delivery
FreshLeads == {Row(1, profile) : profile \in Profiles}

ScoredLeads ==
    {[Row(1, "complete") EXCEPT !.priority = IntVal(p), !.status = "sent",
                                !.email_subject = <<"Hello">>, !.email_body = <<"Hi">>] :
        p \in {2, 3, 4}}

StageInit ==
    /\ rows \in {<<l>> : l \in FreshLeads \cup ScoredLeads}
    /\ pc = "call"
    /\ i = 1
    /\ lead = rows[1]
    /\ processed = <<>>
    /\ out = <<>>
    /\ smtp = <<>>
    /\ trace = <<<<>>>>
    /\ out_csv = [written |-> FALSE, rows |-> <<>>]
    /\ report = NoReport
    /\ stdout = <<>>

Returned(stage) ==
    /\ pc' = "returned"
    /\ trace' = Log(stage, "ok", "")
    /\ UNCHANGED <<rows, i, processed, smtp, out_csv, report, stdout>>

Raised(stage, e) ==
    /\ pc' = "raised"
    /\ trace' = Log(stage, "raise", e)
    /\ UNCHANGED <<rows, i, lead, processed, smtp, out_csv, report, stdout>>

CallEnrich ==
    /\ pc = "call"
    /\ ~lead.priority.num
    /\ \E content \in TextsUpTo(EnrichAlphabet, MaxTextLen) :
         /\ out' = generate(content)
         /\ lead' = enrich_lead(lead, out')
         /\ Returned("enrich")

CallScore ==
    /\ pc = "call"
    /\ ~lead.priority.num
    /\ \E content \in TextsUpTo(ScoreAlphabet, MaxTextLen) :
         /\ out' = generate(content)
         /\ \/ /\ ~score_raises(out')
               /\ lead' = score_lead(lead, out')
               /\ Returned("score")
            \/ /\ score_raises(out')
               /\ Raised("score", ValueErrorText)

CallDraft ==
    /\ pc = "call"
    /\ lead.priority.num
    /\ \E content \in TextsUpTo(DraftAlphabet, MaxTextLen) :
         /\ out' = generate(content)
         /\ lead' = draft_email(lead, out')
         /\ Returned("draft")

CallSimulate ==
    /\ pc = "call"
    /\ lead.priority.num
    /\ \E r1 \in RandomDraws, r2 \in RandomDraws :
         \/ /\ ~simulate(lead, r1, r2)
            /\ lead' = no_response(lead)
            /\ UNCHANGED out
            /\ Returned("simulate")
         \/ /\ simulate(lead, r1, r2)
            /\ \E reply \in ReplyCompletions, content \in TextsUpTo(LabelAlphabet, MaxTextLen) :
                 /\ out' = generate(content)
                 /\ \/ /\ ~label_raises(out')
                       /\ lead' = replied(lead, generate(reply), out')
                       /\ Returned("simulate")
                    \/ /\ label_raises(out')
                       /\ Raised("simulate", IndexErrorText)

StageNext ==
    \/ CallEnrich
    \/ CallScore
    \/ CallDraft
    \/ CallSimulate

StageSpec == StageInit /\ [][StageNext]_vars

(***************************************************************************)
(* Properties.                                                             *)
(***************************************************************************)
\* the events of record k so far
Events(k) == {trace[k][j] : j \in 1..Len(trace[k])}

HasEvent(k, stage, result) == \E ev \in Events(k) : ev.stage = stage /\ ev.result = result

RaisedIn(k) == \E ev \in Events(k) : ev.result = "raise"

\* record k has left the loop body
Emitted(k) == k < i \/ (k = i /\ pc \notin {"enrich", "score", "draft", "send", "simulate"})

\* the delivery of record k was accepted
Delivered(k) == \E m \in 1..Len(smtp) : smtp[m].to = rows[k].email

\* C1: when enrichment, scoring, drafting or response simulation raises for
\* a record, that event is the record's last (no later stage and no delivery
\* runs for it), the record is appended with status `error: <detail>`, and
\* the loop stands ready for the next record.
C1_StageErrorIsolated ==
    \A k \in 1..Len(trace) : \A j \in 1..Len(trace[k]) :
        trace[k][j].result = "raise" =>
            /\ trace[k][j].stage \in {"enrich", "score", "draft", "simulate"}
            /\ j = Len(trace[k])
            /\ trace[k][j].stage # "simulate" => ~Delivered(k) /\ ~HasEvent(k, "send", "fail")
            /\ k <= Len(processed)
            /\ processed[k].email = rows[k].email
            /\ processed[k].status = "error: " \o trace[k][j].detail
            /\ k = i => pc \in {"loop", "report", "insights", "done", "aborted"}
            /\ (k = i /\ i < Len(rows)) => pc = "loop"

\* a first record whose drafting raised, and a second record processed after it
C1_Witness ==
    /\ Len(processed) = 2
    /\ HasEvent(1, "draft", "raise")
    /\ HasEvent(2, "simulate", "ok")

\* C2: a record whose delivery failed and for which no stage raised goes on
\* to response simulation and is emitted with status `send_error: <detail>`.
C2_SendErrorKept ==
    \A k \in 1..Len(trace) : \A ev \in Events(k) :
        (ev.stage = "send" /\ ev.result = "fail" /\ Emitted(k) /\ ~RaisedIn(k)) =>
            /\ HasEvent(k, "simulate", "ok")
            /\ processed[k].status = "send_error: " \o ev.detail

\* C3: the output collection holds exactly one record per finished loop
\* iteration, record k being the processed form of input row k, so the
\* written table has one row per input row in input order.
C3_OneRowPerInput ==
    /\ Len(processed) = IF pc \in {"enrich", "score", "draft", "send", "simulate"} THEN i - 1 ELSE i
    /\ Len(processed) <= Len(rows)
    /\ \A k \in 1..Len(processed) :
          /\ processed[k].email = rows[k].email
          /\ processed[k].first_name = rows[k].first_name
    /\ out_csv.written =>
          /\ Len(out_csv.rows) = Len(rows)
          /\ \A k \in 1..Len(rows) : out_csv.rows[k].email = rows[k].email

\* a written table of two rows, one whose scoring raised and one whose
\* delivery failed
C3_Witness ==
    /\ out_csv.written
    /\ Len(out_csv.rows) = 2
    /\ \E k \in 1..2 : HasEvent(k, "score", "raise")
    /\ \E k \in 1..2 : HasEvent(k, "send", "fail")

\* a text has a line that starts with `priority` and holds digits
HasValidPriorityLine(text) ==
    \E n \in 1..Len(SplitLines(text)) :
        /\ StartsWith(Strip(Lower(SplitLines(text)[n])), "priority")
        /\ Digits(SplitLines(text)[n]) # <<>>

\* C4: after score_lead returns, priority is an integer in 1..5, and is 3
\* when no line starting with `priority` yields an integer.
C4_PriorityInRange ==
    (pc = "returned" /\ HasEvent(1, "score", "ok")) =>
        /\ lead.priority.num
        /\ lead.priority.val \in 1..5
        /\ ~HasValidPriorityLine(out) => lead.priority.val = 3

\* C5: after draft_email returns, email_body is not empty (stated for the
\* completions that are not blank; a blank one leaves the body empty too).
C5_BodyNonEmpty ==
    (pc = "returned" /\ HasEvent(1, "draft", "ok") /\ out # <<>>) => lead.email_body # Empty

Categories == {<<"Interested">>, <<"Maybe">>, <<"Not", SP, "Interested">>}

\* C6: when simulate_and_classify_responses returns, response_category is
\* `No Response` exactly when status is `no_response`, and one of
\* `Interested`, `Maybe`, `Not Interested` exactly when status is `replied`
\* (stated for the classifications that are one of the three labels asked
\* for; any other first word is stored as it comes, too).
C6_CategoryInSet ==
    (pc = "returned" /\ HasEvent(1, "simulate", "ok")
        /\ (lead.status = "replied" => out \in Categories)) =>
        /\ lead.response_category \in Categories \cup {NoResponse}
        /\ lead.response_category = NoResponse <=> lead.status = "no_response"
        /\ lead.response_category \in Categories <=> lead.status = "replied"

\* C7: a run that has stopped has processed every record, written the
\* output table and the report, and reported completion.
C7_RunCompletes ==
    pc \in {"done", "aborted"} =>
        /\ Len(processed) = Len(rows)
        /\ out_csv.written
        /\ report.written
        /\ stdout # <<>>

ProfileFields == {"company", "title", "industry", "location"}

NonBlank(v) == v \notin {None, NaN, Empty}

Preserved(before, after) ==
    \A f \in ProfileFields : NonBlank(before[f]) => after[f] = before[f]

AverageHolds(df, avg) ==
    IF df = <<>> THEN avg = Zero
    ELSE CountNumeric(df) > 0 =>
            /\ ~avg.nan
            /\ avg.num * CountNumeric(df) = SumPriority(df) * avg.den

\* C9: once generate_report has been called on the finished record set, it
\* has computed an average priority that is the mean of the numeric
\* priorities, and 0.0 when the set is empty.
C9_AveragePriority ==
    pc \in {"insights", "done", "aborted"} =>
        /\ report.computed
        /\ AverageHolds(out_csv.rows, report.summary.avg_priority)

\* C10: the Sent count of the summary is the number of records whose
\* delivery succeeded (stated for the runs in which no stage raises).
C10_SentCount ==
    (report.computed /\ \A k \in 1..Len(trace) : ~RaisedIn(k)) =>
        report.summary.sent = Cardinality({k \in 1..Len(rows) : Delivered(k)})

====
